---------------------------- MODULE Spec2Model ----------------------------
(***************************************************************************)
(* PlotBott's ComfyUI scripts: the conversion of an editor workflow into   *)
(* the API format (convert-workflow.py), the prompt injection into the     *)
(* positive text node, and the submit-and-poll client                      *)
(* (generate-images-working.py, generate-images-local.py,                  *)
(* test-simple-generation.py, debug-workflow-submit.py).                   *)
(*                                                                         *)
(* JSON objects are records with a field `keys`, the set of the optional   *)
(* keys the object holds ('title' in node  is  Has(node, "title")).  A     *)
(* value that may be JSON null is a sequence: <<>> is null, <<v>> is v.    *)
(* Titles are sequences of one-character strings, so that lower() and the  *)
(* substring test are computed.  A Python dict is a function on its keys;  *)
(* where the code iterates a dict, its insertion order is kept beside it.  *)
(***************************************************************************)
EXTENDS Integers, Sequences, FiniteSets, TLC

VARIABLES
    script,        \* which script runs
    pc,            \* its position
    workflow_file, \* the content of the workflow file
    workflow,      \* the workflow as loaded, and as the script changes it
    api_workflow,  \* convert-workflow.py: what convert_workflow_to_api returned
    api_nodes,     \* convert-workflow.py: the api_node built for each node, in order
    prompt_text,   \* the prompt text the script injects
    selected,      \* the positions, in iteration order, of the nodes the injection loop overwrote
    posted,        \* the payloads of the POST /prompt requests sent, oldest first
    response,      \* the response to the POST /prompt request
    poll_i,        \* the poll loop's i: the GET /history requests sent so far
    queried,       \* the job id of the last GET /history request: <<>> before the first
    history,       \* the last reply to GET /history
    copied,        \* the files written to output_path, oldest first
    returned,      \* generate_image's return value: <<>> until it returns
    printed,       \* the messages printed so far, oldest first
    document,      \* generate-images-local.py: the blocks of broll-prompts.md
    prompts,       \* generate-images-local.py: what parse_broll_prompts returned
    batch_i,       \* generate-images-local.py: the prompts main has gone through
    generated      \* generate-images-local.py: main's tally of generated images

\* The variables of main's loop in generate-images-local.py.
batch == <<document, prompts, batch_i, generated>>

vars == <<script, pc, workflow_file, workflow, api_workflow, api_nodes, prompt_text, selected,
          posted, response, poll_i, queried, history, copied, returned, printed, batch>>

(***************************************************************************)
(* Bounds of the model.                                                    *)
(***************************************************************************)
MaxNodes  == 2   \* nodes of a workflow
MaxInputs == 2   \* input slots of the wired node
MaxLinks  == 2   \* entries of the link table
MaxBlocks == 3   \* blocks of broll-prompts.md

(***************************************************************************)
(* Python helpers.                                                         *)
(***************************************************************************)
Has(d, k) == k \in d.keys

EmptyDict == <<>>

DictSet(d, k, v) == [x \in DOMAIN d \cup {k} |-> IF x = k THEN v ELSE d[x]]

\* str(n) of an integer
str(n) == ToString(n)

LowerOf ==
    "N" :> "n" @@ "E" :> "e" @@ "G" :> "g" @@ "A" :> "a" @@
    "T" :> "t" @@ "I" :> "i" @@ "V" :> "v" @@ "P" :> "p"

\* s.lower()
lower(s) == [i \in 1..Len(s) |-> IF s[i] \in DOMAIN LowerOf THEN LowerOf[s[i]] ELSE s[i]]

\* sub in s
Contains(sub, s) ==
    \E i \in 0..(Len(s) - Len(sub)) : SubSeq(s, i + 1, i + Len(sub)) = sub

negative == <<"n", "e", "g", "a", "t", "i", "v", "e">>

(***************************************************************************)
(* Values of the API format: an input is a literal or a reference          *)
(* [source_node_id, source_output_index].                                  *)
(***************************************************************************)
Lit(v) == [kind |-> "literal", value |-> v, node |-> "", slot |-> 0]

Ref(n, s) == [kind |-> "reference", value |-> "", node |-> n, slot |-> s]

(***************************************************************************)
(* convert_workflow_to_api                                                 *)
(***************************************************************************)
\* FirstMatch without the break of line 44: the last match is kept.
RECURSIVE FirstMatch_NoBreak(_, _)
FirstMatch_NoBreak(links, link_id) ==
    IF links = <<>> THEN <<>>
    ELSE IF FirstMatch_NoBreak(Tail(links), link_id) # <<>>
         THEN FirstMatch_NoBreak(Tail(links), link_id)
         ELSE IF <<Head(links)[1]>> = link_id
              THEN <<Ref(str(Head(links)[2]), Head(links)[3])>>
              ELSE <<>>

\* The first entry of the link table whose id is link_id, as a sequence of
\* at most one reference (lines 38-44: the scan stops at the first match).
RECURSIVE FirstMatch(_, _)
FirstMatch(links, link_id) ==
    IF links = <<>> THEN <<>>
    ELSE IF <<Head(links)[1]>> = link_id
         THEN <<Ref(str(Head(links)[2]), Head(links)[3])>>
         ELSE FirstMatch(Tail(links), link_id)

\* ResolveLink with line 43 after the scan instead of inside it: an input
\* whose link is not found is set all the same.
ResolveLink_Unguarded(wf, input_info) ==
    IF Has(input_info, "link")
    THEN IF Has(wf, "links") /\ FirstMatch(wf.links, input_info.link) # <<>>
         THEN FirstMatch(wf.links, input_info.link)
         ELSE <<Ref("None", 0)>>
    ELSE <<>>

\* The reference an input is set to, as a sequence of at most one reference
\* (lines 34-44).
ResolveLink(wf, input_info) ==
    IF Has(input_info, "link") /\ Has(wf, "links")
    THEN FirstMatch(wf.links, input_info.link)
    ELSE <<>>

\* The loop over node['inputs'] (lines 32-44), applied to the inputs so far.
RECURSIVE ConvertInputs(_, _, _)
ConvertInputs(wf, inputs, node_inputs) ==
    IF node_inputs = <<>> THEN inputs
    ELSE LET input_info == Head(node_inputs)
             found      == ResolveLink(wf, input_info)
             next       == IF found = <<>> THEN inputs
                           ELSE DictSet(inputs, input_info.name, found[1])
         IN  ConvertInputs(wf, next, Tail(node_inputs))

\* Does the widget conversion of this node raise (line 27, [0] of an empty list)?
WidgetsRaise(node) ==
    /\ Has(node, "widgets_values")
    /\ node.type = "CLIPTextEncode"
    /\ node.widgets_values = <<>>

\* WidgetInputs without the test of the type (line 26).
WidgetInputs_AnyType(node) ==
    IF Has(node, "widgets_values") /\ node.widgets_values # <<>>
    THEN DictSet(EmptyDict, "text", Lit(node.widgets_values[1]))
    ELSE EmptyDict

\* The inputs the widgets give (lines 24-27).
WidgetInputs(node) ==
    IF Has(node, "widgets_values") /\ node.type = "CLIPTextEncode"
    THEN DictSet(EmptyDict, "text", Lit(node.widgets_values[1]))
    ELSE EmptyDict

\* The body of the loop over the nodes (lines 11-46): the api_node of one node.
ConvertNode(wf, node) ==
    [class_type |-> node.type,
     keys       |-> IF Has(node, "title") THEN {"_meta"} ELSE {},
     title      |-> IF Has(node, "title") THEN node.title ELSE <<>>,
     inputs     |-> ConvertInputs(wf, WidgetInputs(node),
                                  IF Has(node, "inputs") THEN node.inputs ELSE <<>>)]

\* api_workflow[node_id] = api_node (line 46) on a dict kept with its order.
ApiSet(api, node_id, api_node) ==
    [order |-> IF node_id \in DOMAIN api.map THEN api.order
               ELSE Append(api.order, node_id),
     map   |-> DictSet(api.map, node_id, api_node)]

\* ConvertNodes with line 46 inside the `if 'inputs' in node:` of line 31.
RECURSIVE ConvertNodes_Indented(_, _, _)
ConvertNodes_Indented(wf, api, nodes) ==
    IF nodes = <<>> THEN [raised |-> "", order |-> api.order, map |-> api.map]
    ELSE IF WidgetsRaise(Head(nodes))
         THEN [raised |-> "IndexError", order |-> <<>>, map |-> EmptyDict]
         ELSE ConvertNodes_Indented(wf,
                  IF Has(Head(nodes), "inputs")
                  THEN ApiSet(api, str(Head(nodes).id), ConvertNode(wf, Head(nodes)))
                  ELSE api,
                  Tail(nodes))

\* The loop over the nodes (lines 10-46), from the dict built so far: the dict
\* returned, or the exception raised.
RECURSIVE ConvertNodes(_, _, _)
ConvertNodes(wf, api, nodes) ==
    IF nodes = <<>> THEN [raised |-> "", order |-> api.order, map |-> api.map]
    ELSE IF WidgetsRaise(Head(nodes))
         THEN [raised |-> "IndexError", order |-> <<>>, map |-> EmptyDict]
         ELSE ConvertNodes(wf, ApiSet(api, str(Head(nodes).id), ConvertNode(wf, Head(nodes))),
                           Tail(nodes))

NodesOf(wf) == IF Has(wf, "nodes") THEN wf.nodes ELSE <<>>

convert_workflow_to_api(wf) ==
    ConvertNodes(wf, [order |-> <<>>, map |-> EmptyDict], NodesOf(wf))

\* The api_node of every node the loop gets through, in the order of the nodes.
RECURSIVE BuiltNodes(_, _)
BuiltNodes(wf, nodes) ==
    IF nodes = <<>> \/ WidgetsRaise(Head(nodes)) THEN <<>>
    ELSE <<ConvertNode(wf, Head(nodes))>> \o BuiltNodes(wf, Tail(nodes))

(***************************************************************************)
(* The workflows the scripts are run on.                                   *)
(***************************************************************************)
NodeIds == {1, 2}

SeqsUpTo(S, n) == UNION {[1..k -> S] : k \in 0..n}

TitlePositive == <<"P", "o", "s", "i", "t", "i", "v", "e">>
TitleNegative == <<"N", "e", "g", "a", "t", "i", "v", "e">>

MkNode(id, type, ks, title, wv, ins) ==
    [id |-> id, type |-> type, keys |-> ks, title |-> title,
     widgets_values |-> wv, inputs |-> ins]

\* A node without input slots: every type, title and widget list.
PlainNodes ==
    { MkNode(id, tw[1], tw[2] \cup t[1], t[2], tw[3], <<>>) :
        id \in NodeIds,
        tw \in { <<"CLIPTextEncode", {}, <<>>>>,
                 <<"CLIPTextEncode", {"widgets_values"}, <<>>>>,
                 <<"CLIPTextEncode", {"widgets_values"}, <<"hello", "world">>>>,
                 <<"KSampler", {}, <<>>>>,
                 <<"KSampler", {"widgets_values"}, <<"euler">>>> },
        t  \in { <<{}, <<>>>>, <<{"title"}, TitlePositive>>, <<{"title"}, TitleNegative>> } }

\* An input slot: a name, and a link key that is missing, null or a link id.
InputInfos ==
    { [name |-> "text", keys |-> {"link"}, link |-> <<7>>],
      [name |-> "clip", keys |-> {"link"}, link |-> <<7>>],
      [name |-> "clip", keys |-> {"link"}, link |-> <<8>>],
      [name |-> "clip", keys |-> {"link"}, link |-> <<>>],
      [name |-> "clip", keys |-> {}, link |-> <<>>] }

\* A link table entry [link_id, source node, source slot, ...].
LinkEntries == { <<7, 1, 0>>, <<7, 2, 1>>, <<8, 2, 0>> }

\* The node whose inputs are wired.
WiredNodes ==
    { MkNode(id, tw[1], tw[2] \cup {"inputs"}, <<>>, tw[3], ins) :
        id \in NodeIds,
        tw \in { <<"CLIPTextEncode", {"widgets_values"}, <<"hello", "world">>>>,
                 <<"CLIPTextEncode", {"widgets_values"}, <<>>>>,
                 <<"KSampler", {"widgets_values"}, <<"euler">>>> },
        ins \in SeqsUpTo(InputInfos, MaxInputs) }

SourceNodes ==
    { MkNode(id, "CheckpointLoaderSimple", {}, <<>>, <<>>, <<>>) : id \in NodeIds }

\* Graphs that vary in their nodes.
NodeGraphs ==
    { [keys |-> {"nodes"}, nodes |-> ns, links |-> <<>>] : ns \in SeqsUpTo(PlainNodes, MaxNodes) }
    \cup { [keys |-> {}, nodes |-> <<>>, links |-> <<>>] }

\* Graphs that vary in their wiring: a wired node, alone or followed by a source node.
WiredGraphs ==
    { [keys |-> {"nodes"} \cup lk[1], nodes |-> ns, links |-> lk[2]] :
        ns \in UNION { { <<w>>, <<w, s>> } : w \in WiredNodes, s \in SourceNodes },
        lk \in { <<{}, <<>>>> } \cup { <<{"links"}, l>> : l \in SeqsUpTo(LinkEntries, MaxLinks) } }

NoApi == [raised |-> "", order |-> <<>>, map |-> EmptyDict]

\* The workflow files of the generate scripts: nodes that vary in type, title
\* and widgets; their ids are their positions.
PromptNodes ==
    { <<"CLIPTextEncode", {"widgets_values"}, <<>>, <<"old">>>>,
      <<"CLIPTextEncode", {"widgets_values", "title"}, TitlePositive, <<"old">>>>,
      <<"CLIPTextEncode", {"widgets_values", "title"}, TitleNegative, <<"old">>>>,
      <<"CLIPTextEncode", {}, <<>>, <<>>>>,
      <<"KSampler", {"widgets_values"}, <<>>, <<"euler">>>> }

PromptGraphs ==
    { [keys |-> {"nodes"},
       nodes |-> [k \in DOMAIN ns |-> MkNode(k, ns[k][1], ns[k][2], ns[k][3], ns[k][4], <<>>)],
       links |-> <<>>] : ns \in SeqsUpTo(PromptNodes, MaxNodes) }
    \cup { [keys |-> {}, nodes |-> <<>>, links |-> <<>>] }

NoWorkflow == [keys |-> {}, nodes |-> <<>>, links |-> <<>>]

NoResponse == [status_code |-> 0, text |-> "", prompt_id |-> ""]

NoHistory == [kind |-> "none", job |-> "", outputs |-> <<>>, files |-> {}]

\* The scripts without a batch of prompts.
NoBatch == document = <<>> /\ prompts = <<>> /\ batch_i = 0 /\ generated = 0

Msg(kind, text) == [kind |-> kind, text |-> text]

(***************************************************************************)
(* The prompt injection loops.                                             *)
(***************************************************************************)
\* IsPositiveTitle without lower().
IsPositiveTitle_CaseSensitive(title) == ~Contains(negative, title)

\* 'negative' not in title.lower()
IsPositiveTitle(title) == ~Contains(negative, lower(title))

\* node.get('title', '')
TitleOf(node) == IF Has(node, "title") THEN node.title ELSE <<>>

\* The positions 1..n that satisfy P, in order.
Positions(n, P(_)) == SelectSeq([k \in 1..n |-> k], P)

\* The first position that satisfies P, as a sequence of at most one position.
FirstPosition(n, P(_)) ==
    IF Positions(n, P) = <<>> THEN <<>> ELSE <<Head(Positions(n, P))>>

\* generate-images-working.py, lines 48-51
MatchWorking(node) ==
    /\ node.type = "CLIPTextEncode"
    /\ Has(node, "widgets_values")
    /\ IsPositiveTitle(TitleOf(node))

\* debug-workflow-submit.py, lines 16-19
MatchDebug(node) ==
    /\ node.type = "CLIPTextEncode"
    /\ IsPositiveTitle(TitleOf(node))

\* generate-images-working.py, lines 46-54: the loop ends at the first match.
SelectWorking(wf) ==
    IF Has(wf, "nodes")
    THEN FirstPosition(Len(wf.nodes), LAMBDA k : MatchWorking(wf.nodes[k]))
    ELSE <<>>

\* generate-images-local.py, lines 48-54: the loop has no break.
SelectLocal(wf) ==
    IF Has(wf, "nodes")
    THEN Positions(Len(wf.nodes), LAMBDA k : MatchWorking(wf.nodes[k]))
    ELSE <<>>

\* debug-workflow-submit.py, lines 14-22
SelectDebug(wf) ==
    IF Has(wf, "nodes")
    THEN FirstPosition(Len(wf.nodes), LAMBDA k : MatchDebug(wf.nodes[k]))
    ELSE <<>>

Range(s) == {s[k] : k \in DOMAIN s}

\* node['widgets_values'] = [text] on the nodes at the positions ks
SetWidgets(wf, ks, text) ==
    [wf EXCEPT !.nodes =
        [k \in DOMAIN wf.nodes |->
            IF k \in Range(ks)
            THEN [wf.nodes[k] EXCEPT !.widgets_values = <<text>>,
                                     !.keys = @ \cup {"widgets_values"}]
            ELSE wf.nodes[k]]]

\* convert-workflow.py, lines 63-65
MatchApi(api_node) ==
    /\ api_node.class_type = "CLIPTextEncode"
    /\ IsPositiveTitle(IF "_meta" \in api_node.keys THEN api_node.title ELSE <<>>)

\* convert-workflow.py, lines 62-68: positions in the dict's iteration order
SelectApi(api) ==
    FirstPosition(Len(api.order), LAMBDA p : MatchApi(api.map[api.order[p]]))

\* node["inputs"]["text"] = text on the nodes at the positions ps
SetText(api, ps, text) ==
    [api EXCEPT !.map =
        [key \in DOMAIN api.map |->
            IF \E p \in Range(ps) : api.order[p] = key
            THEN [api.map[key] EXCEPT !.inputs = DictSet(@, "text", Lit(text))]
            ELSE api.map[key]]]

(***************************************************************************)
(* The remote service.  requests.post and requests.get are called with no  *)
(* timeout argument: a request is answered, raises, or never returns, and  *)
(* then the script stays where it is (pc = "blocked").                     *)
(***************************************************************************)
\* What POST /prompt answers: a job id, or a rejection with its body.
Responses ==
    { [status_code |-> 200, text |-> "", prompt_id |-> "job-1"],
      [status_code |-> 400, text |-> "invalid prompt", prompt_id |-> ""],
      [status_code |-> 500, text |-> "server error", prompt_id |-> ""] }

Images(names) == [keys |-> {"images"}, images |-> names]

NoImages == [keys |-> {}, images |-> <<>>]

\* The outputs of a finished job, in the mapping's iteration order.
FinishedOutputs ==
    { <<Images(<<"a.png">>)>>,
      <<Images(<<>>)>>,
      <<Images(<<"a.png", "b.png">>)>>,
      <<NoImages, Images(<<"b.png">>)>>,
      <<Images(<<"a.png">>), Images(<<"b.png">>)>> }

\* The job ids the service gives out.
JobIds == {"job-1", "job-2"}

\* What GET /history/<prompt_id> answers, with the files then in ComfyUI's output
\* directory: the request raises, a non-200 status, a mapping with no entry, or
\* a mapping with the entry of one job, whose outputs are empty or not.  The
\* entry is that of the job submitted, "job-1", or that of another job.
Histories ==
    { [kind |-> k, job |-> "", outputs |-> <<>>, files |-> {}] : k \in {"raises", "status", "missing"} }
    \cup { [kind |-> "empty", job |-> j, outputs |-> <<>>, files |-> {}] : j \in JobIds }
    \cup { [kind |-> "outputs", job |-> "job-1", outputs |-> o, files |-> f] :
             o \in FinishedOutputs, f \in SUBSET {"a.png", "b.png"} }
    \cup { [kind |-> "outputs", job |-> "job-2", outputs |-> <<Images(<<"a.png">>)>>,
            files |-> {"a.png"}] }

\* OutputsFor taking the entry of whatever job the reply holds.
OutputsFor_AnyJob(h, prompt_id) ==
    IF h.kind \in {"empty", "outputs"} THEN h.outputs ELSE <<>>

\* lines 71-74 (lines 93-96 of test-simple-generation.py): the outputs the
\* reply h holds for prompt_id, empty when the status is not 200, when
\* prompt_id is not in the reply or when its entry has no outputs.
OutputsFor(h, prompt_id) ==
    IF h.kind \in {"empty", "outputs"} /\ h.job = prompt_id THEN h.outputs ELSE <<>>

\* The poll budgets: range(60) and range(30).
WorkingAttempts == 60
TestAttempts == 30

\* FirstExisting without the return: every image whose file exists is copied
\* to the same path, and the last of them stays.
RECURSIVE FirstExisting_NoReturn(_, _)
FirstExisting_NoReturn(names, files) ==
    IF names = <<>> THEN <<>>
    ELSE IF FirstExisting_NoReturn(Tail(names), files) # <<>>
         THEN FirstExisting_NoReturn(Tail(names), files)
         ELSE IF Head(names) \in files THEN <<Head(names)>> ELSE <<>>

\* generate-images-working.py, lines 78-87: the first image whose file exists,
\* as a sequence of at most one file name.
RECURSIVE FirstExisting(_, _)
FirstExisting(names, files) ==
    IF names = <<>> THEN <<>>
    ELSE IF Head(names) \in files THEN <<Head(names)>>
         ELSE FirstExisting(Tail(names), files)

RECURSIVE ImageNames(_)
ImageNames(outputs) ==
    IF outputs = <<>> THEN <<>>
    ELSE (IF Has(Head(outputs), "images") THEN Head(outputs).images ELSE <<>>)
         \o ImageNames(Tail(outputs))

\* test-simple-generation.py, lines 7-72
ApiNode(class_type, title, inputs) ==
    [class_type |-> class_type, keys |-> {"_meta"}, title |-> title, inputs |-> inputs]

simple_workflow ==
    [raised |-> "",
     order  |-> <<"3", "4", "5", "6", "7", "8", "9">>,
     map    |->
        "3" :> ApiNode("KSampler",
            <<"K", "S", "a", "m", "p", "l", "e", "r">>,
            [seed |-> Lit(123456), steps |-> Lit(20), cfg |-> Lit(8), sampler_name |-> Lit("euler"),
            scheduler |-> Lit("normal"), denoise |-> Lit(1), model |-> Ref("4", 0), positive |->
            Ref("6", 0), negative |-> Ref("7", 0), latent_image |-> Ref("5", 0)]) @@
        "4" :> ApiNode("CheckpointLoaderSimple",
            <<"L", "o", "a", "d", " ", "C", "h", "e", "c", "k", "p", "o", "i", "n", "t">>,
            [ckpt_name |-> Lit("flux1-dev-fp8.safetensors")]) @@
        "5" :> ApiNode("EmptyLatentImage",
            <<"E", "m", "p", "t", "y", " ", "L", "a", "t", "e", "n", "t", " ", "I", "m", "a", "g", "e">>,
            [width |-> Lit(1024), height |-> Lit(1024), batch_size |-> Lit(1)]) @@
        "6" :> ApiNode("CLIPTextEncode",
            <<"C", "L", "I", "P", " ", "T", "e", "x", "t", " ", "E", "n", "c", "o", "d", "e", " ", "(", "P", "o", "s", "i", "t", "i", "v", "e", ")">>,
            [text |-> Lit("Elena Martinez, 40s, Latina food critic, examining a dish"), clip |->
            Ref("4", 1)]) @@
        "7" :> ApiNode("CLIPTextEncode",
            <<"C", "L", "I", "P", " ", "T", "e", "x", "t", " ", "E", "n", "c", "o", "d", "e", " ", "(", "N", "e", "g", "a", "t", "i", "v", "e", ")">>,
            [text |-> Lit("blurry, low quality, text, watermark"), clip |-> Ref("4", 1)]) @@
        "8" :> ApiNode("VAEDecode",
            <<"V", "A", "E", " ", "D", "e", "c", "o", "d", "e">>,
            [samples |-> Ref("3", 0), vae |-> Ref("4", 2)]) @@
        "9" :> ApiNode("SaveImage",
            <<"S", "a", "v", "e", " ", "I", "m", "a", "g", "e">>,
            [filename_prefix |-> Lit("husk-bank-test"), images |-> Ref("8", 0)])]

(***************************************************************************)
(* convert-workflow.py                                                     *)
(***************************************************************************)
\* After the workflow file is loaded (lines 51-54).
InitConvert ==
    /\ script = "convert-workflow"
    /\ pc = "convert"
    /\ workflow_file \in NodeGraphs \cup WiredGraphs
    /\ workflow = workflow_file
    /\ api_workflow = NoApi
    /\ api_nodes = <<>>
    /\ prompt_text = "a beautiful test landscape"
    /\ NoBatch
    /\ selected = <<>>
    /\ posted = <<>>
    /\ response = NoResponse
    /\ poll_i = 0
    /\ queried = <<>>
    /\ history = NoHistory
    /\ copied = <<>>
    /\ returned = <<>>
    /\ printed = <<>>

\* EditorGraphAfter reading the link table with setdefault('links', []).
EditorGraphAfter_SetDefault(wf) ==
    IF Has(wf, "nodes") /\ \E k \in DOMAIN wf.nodes : Has(wf.nodes[k], "inputs")
    THEN [wf EXCEPT !.keys = @ \cup {"links"}]
    ELSE wf

\* The editor graph as the call leaves it: lines 5-48 assign to api_workflow
\* and to api_node only, the nodes, their widgets and inputs are read, and
\* workflow.get('links', []) at line 39 puts no key into the graph.
EditorGraphAfter(wf) == wf

\* lines 56-59: api_workflow = convert_workflow_to_api(web_workflow)
Convert ==
    /\ script = "convert-workflow" /\ pc = "convert"
    /\ api_workflow' = convert_workflow_to_api(workflow)
    /\ workflow' = EditorGraphAfter(workflow)
    /\ api_nodes' = BuiltNodes(workflow, NodesOf(workflow))
    /\ pc' = IF api_workflow'.raised = "" THEN "update" ELSE "crashed"
    /\ printed' = IF api_workflow'.raised = ""
                  THEN printed \o <<Msg("converting", ""), Msg("converted", "")>>
                  ELSE Append(printed, Msg("converting", ""))
    /\ UNCHANGED <<batch, queried, script, workflow_file, prompt_text, selected, posted,
                   response, poll_i, history, copied, returned>>

\* lines 61-68: the positive prompt of the converted workflow is replaced
UpdatePositive ==
    /\ script = "convert-workflow" /\ pc = "update"
    /\ selected' = SelectApi(api_workflow)
    /\ api_workflow' = SetText(api_workflow, selected', prompt_text)
    /\ printed' = IF selected' = <<>> THEN printed
                  ELSE Append(printed, Msg("updating", api_workflow.order[selected'[1]]))
    /\ pc' = "post"
    /\ UNCHANGED <<batch, queried, api_nodes, script, workflow_file, workflow, prompt_text, posted, response, poll_i,
                   history, copied, returned>>

\* lines 70-87: the converted workflow is posted
PostConvert ==
    /\ script = "convert-workflow" /\ pc = "post"
    /\ posted' = Append(posted, api_workflow)
    /\ \/ /\ response' = NoResponse
          /\ printed' = printed \o <<Msg("testing", ""), Msg("error", "")>>
          /\ pc' = "done"
       \/ /\ response' = NoResponse
          /\ printed' = Append(printed, Msg("testing", ""))
          /\ pc' = "blocked"
       \/ \E r \in Responses :
             /\ response' = r
             /\ printed' = printed \o <<Msg("testing", ""), Msg("status", str(r.status_code)),
                                        IF r.status_code = 200 THEN Msg("success", r.prompt_id)
                                        ELSE Msg("failed", r.text)>>
             /\ pc' = "done"
    /\ UNCHANGED <<batch, queried, api_nodes, script, workflow_file, workflow, api_workflow, prompt_text, selected, poll_i,
                   history, copied, returned>>

(***************************************************************************)
(* generate-images-working.py: generate_image                              *)
(***************************************************************************)
Prompts == {"a cat"}

InitScript(name) ==
    /\ script = name
    /\ pc = "inject"
    /\ workflow_file \in PromptGraphs
    /\ workflow = NoWorkflow
    /\ api_workflow = NoApi
    /\ api_nodes = <<>>
    /\ selected = <<>>
    /\ posted = <<>>
    /\ response = NoResponse
    /\ poll_i = 0
    /\ queried = <<>>
    /\ history = NoHistory
    /\ copied = <<>>
    /\ returned = <<>>
    /\ printed = <<>>

InitWorking ==
    /\ InitScript("generate-images-working")
    /\ NoBatch
    /\ prompt_text \in Prompts

\* lines 41-54: the workflow is loaded and the prompt injected
InjectWorking ==
    /\ script = "generate-images-working" /\ pc = "inject"
    /\ selected' = SelectWorking(workflow_file)
    /\ workflow' = SetWidgets(workflow_file, selected', prompt_text)
    /\ printed' = IF selected' = <<>> THEN printed ELSE Append(printed, Msg("updated", ""))
    /\ pc' = "post"
    /\ UNCHANGED <<batch, queried, api_nodes, script, workflow_file, api_workflow, prompt_text, posted, response, poll_i,
                   history, copied, returned>>

\* AfterPostWorking with the poll loop outside the test of the status.
AfterPostWorking_PollsAnyway(r) ==
    IF r.status_code = 200
    THEN [printed |-> <<Msg("submitted", r.prompt_id)>>, returned |-> <<>>, pc |-> "poll"]
    ELSE [printed |-> <<Msg("failed to submit", r.text)>>, returned |-> <<>>, pc |-> "poll"]

\* What the function does with the response r (lines 63-66 and 94-96).
AfterPostWorking(r) ==
    IF r.status_code = 200
    THEN [printed |-> <<Msg("submitted", r.prompt_id)>>, returned |-> <<>>, pc |-> "poll"]
    ELSE [printed |-> <<Msg("failed to submit", r.text)>>, returned |-> <<FALSE>>, pc |-> "done"]

\* lines 56-66 and 94-100: the workflow is posted
PostWorking ==
    /\ script = "generate-images-working" /\ pc = "post"
    /\ posted' = Append(posted, workflow)
    /\ \/ /\ response' = NoResponse
          /\ printed' = printed \o <<Msg("submitting", ""), Msg("error", "")>>
          /\ returned' = <<FALSE>>
          /\ pc' = "done"
       \/ /\ response' = NoResponse
          /\ printed' = Append(printed, Msg("submitting", ""))
          /\ returned' = returned
          /\ pc' = "blocked"
       \/ \E r \in Responses :
             /\ response' = r
             /\ printed' = printed \o <<Msg("submitting", "")>> \o AfterPostWorking(r).printed
             /\ returned' = AfterPostWorking(r).returned
             /\ pc' = AfterPostWorking(r).pc
    /\ UNCHANGED <<batch, queried, api_nodes, script, workflow_file, workflow, api_workflow, prompt_text, selected, poll_i,
                   history, copied>>

\* PollStepWorking going on with the loop when no file of the outputs exists.
PollStepWorking_RetriesMissingFile(h, prompt_id) ==
    LET outputs == OutputsFor(h, prompt_id)
        found == FirstExisting(ImageNames(outputs), h.files) IN
    IF h.kind = "raises"
    THEN [printed |-> <<Msg("error", "")>>, copied |-> <<>>, returned |-> <<FALSE>>, pc |-> "done"]
    ELSE IF outputs # <<>> /\ found # <<>>
    THEN [printed |-> <<Msg("complete", ""), Msg("generated", found[1])>>,
          copied |-> found, returned |-> <<TRUE>>, pc |-> "done"]
    ELSE IF outputs # <<>>
    THEN [printed |-> <<Msg("complete", "")>>, copied |-> <<>>, returned |-> <<>>, pc |-> "poll"]
    ELSE [printed |-> <<>>, copied |-> <<>>, returned |-> <<>>, pc |-> "poll"]

\* What one iteration of the poll loop does with the reply h (lines 70-89):
\* the messages it prints, the file it copies and where the function goes on.
PollStepWorking(h, prompt_id) ==
    LET outputs == OutputsFor(h, prompt_id)
        found == FirstExisting(ImageNames(outputs), h.files) IN
    IF h.kind = "raises"
    THEN [printed |-> <<Msg("error", "")>>, copied |-> <<>>, returned |-> <<FALSE>>, pc |-> "done"]
    ELSE IF outputs # <<>>
    THEN IF found # <<>>
         THEN [printed |-> <<Msg("complete", ""), Msg("generated", found[1])>>,
               copied |-> found, returned |-> <<TRUE>>, pc |-> "done"]
         ELSE [printed |-> <<Msg("complete", ""), Msg("timeout", "")>>,
               copied |-> <<>>, returned |-> <<FALSE>>, pc |-> "done"]
    ELSE [printed |-> <<>>, copied |-> <<>>, returned |-> <<>>, pc |-> "poll"]

\* lines 69-89: one iteration of the poll loop
PollWorking ==
    /\ script = "generate-images-working" /\ pc = "poll" /\ poll_i < WorkingAttempts
    /\ poll_i' = poll_i + 1
    /\ queried' = <<response.prompt_id>>
    /\ \/ \E h \in Histories :
             /\ history' = h
             /\ printed' = printed \o PollStepWorking(h, response.prompt_id).printed
             /\ copied' = copied \o PollStepWorking(h, response.prompt_id).copied
             /\ returned' = PollStepWorking(h, response.prompt_id).returned
             /\ pc' = PollStepWorking(h, response.prompt_id).pc
       \/ /\ pc' = "blocked"
          /\ UNCHANGED <<history, printed, copied, returned>>
    /\ UNCHANGED <<batch, api_nodes, script, workflow_file, workflow, api_workflow, prompt_text, selected,
                   posted, response>>

\* TimeoutWorking reporting the timeout as a failed submission.
TimeoutWorking_ReportsFailure ==
    /\ script = "generate-images-working" /\ pc = "poll" /\ poll_i = WorkingAttempts
    /\ printed' = Append(printed, Msg("failed to submit", response.text))
    /\ returned' = <<FALSE>>
    /\ pc' = "done"
    /\ UNCHANGED <<batch, queried, api_nodes, script, workflow_file, workflow, api_workflow, prompt_text,
                   selected, posted, response, poll_i, history, copied>>

\* lines 91-92: the loop ran out
TimeoutWorking ==
    /\ script = "generate-images-working" /\ pc = "poll" /\ poll_i = WorkingAttempts
    /\ printed' = Append(printed, Msg("timeout", ""))
    /\ returned' = <<FALSE>>
    /\ pc' = "done"
    /\ UNCHANGED <<batch, queried, api_nodes, script, workflow_file, workflow, api_workflow, prompt_text, selected,
                   posted, response, poll_i, history, copied>>

(***************************************************************************)
(* test-simple-generation.py                                               *)
(***************************************************************************)
InitTest ==
    /\ script = "test-simple-generation"
    /\ pc = "post"
    /\ workflow_file = NoWorkflow
    /\ workflow = NoWorkflow
    /\ api_workflow = simple_workflow
    /\ NoBatch
    /\ api_nodes = <<>>
    /\ prompt_text = ""
    /\ selected = <<>>
    /\ posted = <<>>
    /\ response = NoResponse
    /\ poll_i = 0
    /\ queried = <<>>
    /\ history = NoHistory
    /\ copied = <<>>
    /\ returned = <<>>
    /\ printed = <<>>

\* lines 74-86 and 109-113
PostTest ==
    /\ script = "test-simple-generation" /\ pc = "post"
    /\ posted' = Append(posted, api_workflow)
    /\ \/ /\ response' = NoResponse
          /\ printed' = printed \o <<Msg("testing", ""), Msg("error", "")>>
          /\ pc' = "done"
       \/ /\ response' = NoResponse
          /\ printed' = Append(printed, Msg("testing", ""))
          /\ pc' = "blocked"
       \/ \E r \in Responses :
             /\ response' = r
             /\ IF r.status_code = 200
                THEN /\ printed' = printed \o <<Msg("testing", ""), Msg("status", str(r.status_code)),
                                                Msg("success", r.prompt_id), Msg("waiting", "")>>
                     /\ pc' = "poll"
                ELSE /\ printed' = printed \o <<Msg("testing", ""), Msg("status", str(r.status_code)),
                                                Msg("failed", r.text)>>
                     /\ pc' = "done"
    /\ UNCHANGED <<batch, queried, api_nodes, script, workflow_file, workflow, api_workflow, prompt_text, selected, poll_i,
                   history, copied, returned>>

\* lines 100-103: one message for every image of the outputs
ImageMessages(outputs) ==
    [k \in 1..Len(ImageNames(outputs)) |-> Msg("image", ImageNames(outputs)[k])]

\* PollStepTest ending the run on a status other than 200.
PollStepTest_FailsOnStatus(h, prompt_id) ==
    IF h.kind \in {"raises", "status"}
    THEN [printed |-> <<Msg("error", "")>>, pc |-> "done"]
    ELSE IF OutputsFor(h, prompt_id) # <<>>
    THEN [printed |-> <<Msg("complete", "")>> \o ImageMessages(OutputsFor(h, prompt_id)),
          pc |-> "done"]
    ELSE [printed |-> <<>>, pc |-> "poll"]

\* What one iteration of the poll loop does with the reply h (lines 92-105).
PollStepTest(h, prompt_id) ==
    IF h.kind = "raises"
    THEN [printed |-> <<Msg("error", "")>>, pc |-> "done"]
    ELSE IF OutputsFor(h, prompt_id) # <<>>
    THEN [printed |-> <<Msg("complete", "")>> \o ImageMessages(OutputsFor(h, prompt_id)),
          pc |-> "done"]
    ELSE [printed |-> <<>>, pc |-> "poll"]

\* lines 91-105: one iteration of the poll loop
PollTest ==
    /\ script = "test-simple-generation" /\ pc = "poll" /\ poll_i < TestAttempts
    /\ poll_i' = poll_i + 1
    /\ queried' = <<response.prompt_id>>
    /\ \/ \E h \in Histories :
             /\ history' = h
             /\ printed' = printed \o PollStepTest(h, response.prompt_id).printed
             /\ pc' = PollStepTest(h, response.prompt_id).pc
       \/ /\ pc' = "blocked"
          /\ UNCHANGED <<history, printed>>
    /\ UNCHANGED <<batch, api_nodes, script, workflow_file, workflow, api_workflow, prompt_text, selected,
                   posted, response, copied, returned>>

\* lines 106-107: the else branch of the loop
TimeoutTest ==
    /\ script = "test-simple-generation" /\ pc = "poll" /\ poll_i = TestAttempts
    /\ printed' = Append(printed, Msg("timeout", ""))
    /\ pc' = "done"
    /\ UNCHANGED <<batch, queried, api_nodes, script, workflow_file, workflow, api_workflow, prompt_text, selected,
                   posted, response, poll_i, history, copied, returned>>

(***************************************************************************)
(* debug-workflow-submit.py                                                *)
(***************************************************************************)
InitDebug ==
    /\ InitScript("debug-workflow-submit")
    /\ NoBatch
    /\ prompt_text = "a beautiful landscape"

\* lines 8-22
InjectDebug ==
    /\ script = "debug-workflow-submit" /\ pc = "inject"
    /\ selected' = SelectDebug(workflow_file)
    /\ workflow' = SetWidgets(workflow_file, selected', prompt_text)
    /\ printed' = IF selected' = <<>> THEN printed ELSE Append(printed, Msg("updating", ""))
    /\ pc' = "post"
    /\ UNCHANGED <<batch, queried, api_nodes, script, workflow_file, api_workflow, prompt_text, posted, response, poll_i,
                   history, copied, returned>>

\* lines 24-41
PostDebug ==
    /\ script = "debug-workflow-submit" /\ pc = "post"
    /\ posted' = Append(posted, workflow)
    /\ \/ /\ response' = NoResponse
          /\ printed' = printed \o <<Msg("submitting", ""), Msg("error", "")>>
          /\ pc' = "done"
       \/ /\ response' = NoResponse
          /\ printed' = Append(printed, Msg("submitting", ""))
          /\ pc' = "blocked"
       \/ \E r \in Responses :
             /\ response' = r
             /\ printed' = printed \o <<Msg("submitting", ""), Msg("status", str(r.status_code)),
                                        Msg("response", r.text),
                                        IF r.status_code = 200 THEN Msg("success", r.prompt_id)
                                        ELSE Msg("failed", str(r.status_code))>>
             /\ pc' = "done"
    /\ UNCHANGED <<batch, queried, api_nodes, script, workflow_file, workflow, api_workflow, prompt_text, selected, poll_i,
                   history, copied, returned>>

(***************************************************************************)
(* generate-images-local.py: parse_broll_prompts, generate_image and main  *)
(***************************************************************************)
\* broll-prompts.md is a sequence of blocks: the heading
\* "# Episode <number> B-roll Prompts", or the heading "## Scene <number>"
\* with its fenced code block.  A number is its digits; the content of a code
\* block is a sequence of pieces of text, " " being white space.
EpisodeBlock(number) == [kind |-> "episode", number |-> number, content |-> <<>>]

SceneBlock(number, content) == [kind |-> "scene", number |-> number, content |-> content]

Blocks ==
    { EpisodeBlock(<<"2">>), EpisodeBlock(<<"0", "3">>),
      SceneBlock(<<"1">>, <<"a cat">>), SceneBlock(<<"2">>, <<" ", "a dog", " ">>) }

Documents == SeqsUpTo(Blocks, MaxBlocks)

\* int() of a string of digits
DigitValue(c) ==
    CASE c = "0" -> 0 [] c = "1" -> 1 [] c = "2" -> 2 [] c = "3" -> 3 [] c = "4" -> 4
      [] c = "5" -> 5 [] c = "6" -> 6 [] c = "7" -> 7 [] c = "8" -> 8 [] c = "9" -> 9

RECURSIVE int(_)
int(ds) ==
    IF ds = <<>> THEN 0
    ELSE 10 * int(SubSeq(ds, 1, Len(ds) - 1)) + DigitValue(ds[Len(ds)])

\* str.strip()
RECURSIVE strip(_)
strip(text) ==
    IF text = <<>> THEN <<>>
    ELSE IF Head(text) = " " THEN strip(Tail(text))
    ELSE IF text[Len(text)] = " " THEN strip(SubSeq(text, 1, Len(text) - 1))
    ELSE text

\* re.findall(pattern, content): the blocks of one kind, in document order
RECURSIVE findall(_, _)
findall(kind, content) ==
    IF content = <<>> THEN <<>>
    ELSE (IF Head(content).kind = kind THEN <<Head(content)>> ELSE <<>>)
         \o findall(kind, Tail(content))

\* lines 13-35: the episode pattern is searched in the whole content, for
\* every scene, and its last match taken.
parse_broll_prompts(content) ==
    LET matches == findall("scene", content)
        episode_matches == findall("episode", content)
        episode_num == IF episode_matches # <<>>
                       THEN episode_matches[Len(episode_matches)].number
                       ELSE <<"1">>
    IN  [m \in DOMAIN matches |->
            [episode |-> int(episode_num),
             scene   |-> int(matches[m].number),
             prompt  |-> strip(matches[m].content)]]

\* The workflow file of the runs that vary in their document.
BatchGraphs ==
    { [keys |-> {"nodes"},
       nodes |-> <<MkNode(1, "CLIPTextEncode", {"widgets_values"}, <<>>, <<"old">>, <<>>)>>,
       links |-> <<>>] }

\* main up to line 94: the files exist.  The runs vary in their workflow
\* file, on a document of one scene, or in their document.
InitLocal ==
    /\ script = "generate-images-local"
    /\ pc = "parse"
    /\ \/ workflow_file \in PromptGraphs /\ document = <<SceneBlock(<<"1">>, <<"a cat">>)>>
       \/ workflow_file \in BatchGraphs /\ document \in Documents
    /\ workflow = NoWorkflow
    /\ api_workflow = NoApi
    /\ api_nodes = <<>>
    /\ prompt_text = <<>>
    /\ selected = <<>>
    /\ posted = <<>>
    /\ response = NoResponse
    /\ poll_i = 0
    /\ queried = <<>>
    /\ history = NoHistory
    /\ copied = <<>>
    /\ returned = <<>>
    /\ printed = <<>>
    /\ prompts = <<>>
    /\ batch_i = 0
    /\ generated = 0

\* lines 96-102
ParseLocal ==
    /\ script = "generate-images-local" /\ pc = "parse"
    /\ prompts' = parse_broll_prompts(document)
    /\ generated' = 0
    /\ printed' = printed \o <<Msg("parsing", ""), Msg("found", Len(prompts'))>>
    /\ pc' = "loop"
    /\ UNCHANGED <<document, batch_i, queried, api_nodes, script, workflow_file, workflow,
                   api_workflow, prompt_text, selected, posted, response, poll_i, history,
                   copied, returned>>

\* lines 103-111, and line 120 when the prompts are through
LoopLocal ==
    /\ script = "generate-images-local" /\ pc = "loop"
    /\ IF batch_i < Len(prompts)
       THEN /\ prompt_text' = prompts[batch_i + 1].prompt
            /\ printed' = printed \o
                    <<Msg("generating", <<batch_i + 1, Len(prompts), prompts[batch_i + 1].episode,
                                          prompts[batch_i + 1].scene>>),
                      Msg("prompt", prompt_text')>>
            /\ pc' = "inject"
       ELSE /\ prompt_text' = prompt_text
            /\ printed' = Append(printed, Msg("batch complete", <<generated, Len(prompts)>>))
            /\ pc' = "done"
    /\ UNCHANGED <<batch, queried, api_nodes, script, workflow_file, workflow, api_workflow,
                   selected, posted, response, poll_i, history, copied, returned>>

\* lines 40-54
InjectLocal ==
    /\ script = "generate-images-local" /\ pc = "inject"
    /\ selected' = SelectLocal(workflow_file)
    /\ workflow' = SetWidgets(workflow_file, selected', prompt_text)
    /\ pc' = "queue"
    /\ UNCHANGED <<batch, queried, api_nodes, script, workflow_file, api_workflow, prompt_text, posted, response, poll_i,
                   history, copied, returned, printed>>

\* What queue_and_wait_images returns: the images by file name, in the dict's order.
Results == { <<>>, <<"a.png">>, <<"a.png", "b.png">> }

\* main going on to the next prompt only after a job that succeeded.
AfterGenerate_StopsOnFailure(ok, n) ==
    [generated |-> IF ok THEN n + 1 ELSE n, pc |-> IF ok THEN "loop" ELSE "done"]

\* lines 113-118: what main does with generate_image's return value
AfterGenerate(ok, n) ==
    [generated |-> IF ok THEN n + 1 ELSE n, pc |-> "loop"]

\* lines 56-72, and lines 113-118 of main
QueueLocal ==
    /\ script = "generate-images-local" /\ pc = "queue"
    /\ posted' = Append(posted, workflow)
    /\ \/ /\ history' = [kind |-> "raises", job |-> "", outputs |-> <<>>, files |-> {}]
          /\ printed' = Append(printed, Msg("error", ""))
          /\ copied' = copied
          /\ returned' = <<FALSE>>
       \/ \E results \in Results :
             /\ history' = [kind |-> "results", job |-> "", outputs |-> results, files |-> {}]
             /\ IF Len(results) > 0
                THEN /\ copied' = Append(copied, Head(results))
                     /\ printed' = Append(printed, Msg("generated", ""))
                     /\ returned' = <<TRUE>>
                ELSE /\ copied' = copied
                     /\ printed' = Append(printed, Msg("no images", ""))
                     /\ returned' = <<FALSE>>
    /\ batch_i' = batch_i + 1
    /\ generated' = AfterGenerate(returned'[1], generated).generated
    /\ pc' = AfterGenerate(returned'[1], generated).pc
    /\ UNCHANGED <<document, prompts, queried, api_nodes, script, workflow_file, workflow,
                   api_workflow, prompt_text, selected, response, poll_i>>

(***************************************************************************)
(* The specifications.                                                     *)
(***************************************************************************)
InitGenerate == InitWorking \/ InitTest \/ InitDebug \/ InitLocal

NextConvert == Convert \/ UpdatePositive \/ PostConvert

NextGenerate ==
    \/ InjectWorking \/ PostWorking \/ PollWorking \/ TimeoutWorking
    \/ PostTest \/ PollTest \/ TimeoutTest
    \/ InjectDebug \/ PostDebug
    \/ ParseLocal \/ LoopLocal \/ InjectLocal \/ QueueLocal

\* convert-workflow.py alone
SpecConvert == InitConvert /\ [][NextConvert]_vars

\* the scripts that submit an editor workflow or the test workflow
SpecGenerate == InitGenerate /\ [][NextGenerate]_vars

\* generate-images-local.py alone
NextLocal == ParseLocal \/ LoopLocal \/ InjectLocal \/ QueueLocal

SpecLocal == InitLocal /\ [][NextLocal]_vars

\* every script
Init == InitConvert \/ InitGenerate

Next == NextConvert \/ NextGenerate

Spec == Init /\ [][Next]_vars

(***************************************************************************)
(* The properties of convert_workflow_to_api.  They are stated on the      *)
(* state in which the function has just returned or raised.                *)
(***************************************************************************)
ConvertReturned == script = "convert-workflow" /\ pc = "update"

ConvertRaised == script = "convert-workflow" /\ pc = "crashed"

\* The decimal form of a small natural number, written out.
DecimalOf(n) == <<"0", "1", "2", "3", "4", "5", "6", "7", "8", "9">>[n + 1]

EditorNodes == NodesOf(workflow)

InputsOf(node) == IF Has(node, "inputs") THEN node.inputs ELSE <<>>

LinkTable == IF Has(workflow, "links") THEN workflow.links ELSE <<>>

\* Entry m of the link table has the link id the input carries.
Matches(input_info, m) ==
    Has(input_info, "link") /\ input_info.link = <<LinkTable[m][1]>>

\* Entry m is the first entry of the link table with the input's link id.
FirstMatching(input_info, m) ==
    Matches(input_info, m) /\ \A n \in 1..(m - 1) : ~Matches(input_info, n)

Resolves(input_info) == \E m \in DOMAIN LinkTable : Matches(input_info, m)

\* No later node of the graph has the id of node k.
LastWithId(k) ==
    \A l \in (k + 1)..Len(EditorNodes) : EditorNodes[l].id # EditorNodes[k].id

\* No later input of node k that resolves has the name of its input j.
LastWithName(k, j) ==
    \A l \in (j + 1)..Len(InputsOf(EditorNodes[k])) :
        InputsOf(EditorNodes[k])[l].name = InputsOf(EditorNodes[k])[j].name
            => ~Resolves(InputsOf(EditorNodes[k])[l])

\* C1: every input of the returned graph that is a reference names a node
\* that is a key of the returned graph.
C1_NoDanglingReferences ==
    ConvertReturned =>
        \A key \in DOMAIN api_workflow.map :
            \A name \in DOMAIN api_workflow.map[key].inputs :
                api_workflow.map[key].inputs[name].kind = "reference"
                    => api_workflow.map[key].inputs[name].node \in DOMAIN api_workflow.map

\* C2 as stated: a graph with N nodes gives exactly N keys, the nodes' ids in
\* string form.
C2_OneKeyPerNode ==
    ConvertReturned =>
        /\ Cardinality(DOMAIN api_workflow.map) = Len(EditorNodes)
        /\ DOMAIN api_workflow.map = {DecimalOf(EditorNodes[k].id) : k \in DOMAIN EditorNodes}

\* C2 as amended: the keys are the nodes' ids in string form, one key for
\* every distinct id, so N keys when the N ids differ from one another.
C2_OneKeyPerDistinctId ==
    ConvertReturned =>
        LET ids == {EditorNodes[k].id : k \in DOMAIN EditorNodes} IN
        /\ DOMAIN api_workflow.map = {DecimalOf(n) : n \in ids}
        /\ Cardinality(DOMAIN api_workflow.map) = Cardinality(ids)
        /\ Cardinality(ids) = Len(EditorNodes)
             => Cardinality(DOMAIN api_workflow.map) = Len(EditorNodes)

\* Two nodes with one id have been converted.
C2_Witness ==
    /\ ConvertReturned
    /\ Len(EditorNodes) = 2
    /\ EditorNodes[1].id = EditorNodes[2].id
    /\ Cardinality(DOMAIN api_workflow.map) = 1

\* C3 as stated: in the node built for its node, an input with link id L is
\* set, under its name, to the reference of any entry (L, source, slot) of the
\* link table.
C3_EveryEntryResolves ==
    ConvertReturned =>
        \A k \in DOMAIN EditorNodes : \A j \in DOMAIN InputsOf(EditorNodes[k]) :
            \A m \in DOMAIN LinkTable :
                LET input_info == InputsOf(EditorNodes[k])[j] IN
                Matches(input_info, m) =>
                    /\ input_info.name \in DOMAIN api_nodes[k].inputs
                    /\ api_nodes[k].inputs[input_info.name]
                           = Ref(DecimalOf(LinkTable[m][2]), LinkTable[m][3])

\* C3 as amended: the input is set to the reference of the first entry of the
\* link table with its link id, and the node built holds it unless a later
\* input of the node with the same name resolves too; that node is returned
\* under its id unless a later node has the id.
C3_FirstEntryResolves ==
    ConvertReturned =>
        \A k \in DOMAIN EditorNodes : \A j \in DOMAIN InputsOf(EditorNodes[k]) :
            \A m \in DOMAIN LinkTable :
                LET input_info == InputsOf(EditorNodes[k])[j] IN
                FirstMatching(input_info, m) /\ LastWithName(k, j) =>
                    /\ input_info.name \in DOMAIN api_nodes[k].inputs
                    /\ api_nodes[k].inputs[input_info.name]
                           = Ref(DecimalOf(LinkTable[m][2]), LinkTable[m][3])
                    /\ LastWithId(k)
                          => api_workflow.map[DecimalOf(EditorNodes[k].id)] = api_nodes[k]

\* An input was resolved whose link id two entries of the link table carry,
\* with different sources.
C3_Witness ==
    /\ ConvertReturned
    /\ \E k \in DOMAIN EditorNodes : \E j \in DOMAIN InputsOf(EditorNodes[k]) :
        \E m, n \in DOMAIN LinkTable :
            /\ m < n
            /\ FirstMatching(InputsOf(EditorNodes[k])[j], m)
            /\ Matches(InputsOf(EditorNodes[k])[j], n)
            /\ LinkTable[m][2] # LinkTable[n][2]
            /\ LastWithName(k, j)
            /\ api_nodes[k].inputs[InputsOf(EditorNodes[k])[j].name].kind = "reference"

\* Input j of node k carries a link (null included) that no entry of the link
\* table has, or there is no link table.
Unresolvable(k, j) ==
    /\ Has(InputsOf(EditorNodes[k])[j], "link")
    /\ ~Resolves(InputsOf(EditorNodes[k])[j])

RemoveAt(s, j) == SubSeq(s, 1, j - 1) \o SubSeq(s, j + 1, Len(s))

WithoutInput(wf, k, j) == [wf EXCEPT !.nodes[k].inputs = RemoveAt(@, j)]

\* C4: an input whose link resolves to nothing adds nothing to its node, and
\* the conversion ends as it ends on the graph without that input: the same
\* graph is returned.
C4_UnresolvableInputSkipped ==
    ConvertReturned \/ ConvertRaised =>
        \A k \in DOMAIN EditorNodes : \A j \in DOMAIN InputsOf(EditorNodes[k]) :
            Unresolvable(k, j) =>
                /\ api_workflow = convert_workflow_to_api(WithoutInput(workflow, k, j))
                /\ ( /\ k \in DOMAIN api_nodes
                     /\ InputsOf(EditorNodes[k])[j].name # "text"
                     /\ \A l \in DOMAIN InputsOf(EditorNodes[k]) :
                           l # j => InputsOf(EditorNodes[k])[l].name # InputsOf(EditorNodes[k])[j].name )
                   => InputsOf(EditorNodes[k])[j].name \notin DOMAIN api_nodes[k].inputs

\* A node with a null link and a link that resolves was converted, and so was
\* a node whose link id is not in the table.
C4_Witness ==
    /\ ConvertReturned
    /\ \E k \in DOMAIN EditorNodes : \E j, l \in DOMAIN InputsOf(EditorNodes[k]) :
          /\ Unresolvable(k, j)
          /\ InputsOf(EditorNodes[k])[j].link = <<>>
          /\ Resolves(InputsOf(EditorNodes[k])[l])
          /\ DOMAIN api_nodes[k].inputs = {InputsOf(EditorNodes[k])[l].name}

\* C5: the conversion does not raise, and the node built for a text-encoding
\* node with widget values has text equal to the first of them.
C5_TextIsFirstWidget ==
    ConvertReturned \/ ConvertRaised =>
        /\ ~ConvertRaised
        /\ \A k \in DOMAIN EditorNodes :
              ( /\ EditorNodes[k].type = "CLIPTextEncode"
                /\ Has(EditorNodes[k], "widgets_values")
                /\ EditorNodes[k].widgets_values # <<>> )
              => /\ "text" \in DOMAIN api_nodes[k].inputs
                 /\ api_nodes[k].inputs["text"] = Lit(EditorNodes[k].widgets_values[1])

\* The operation types of the widget-mapping table.
WidgetTable == {"CLIPTextEncode"}

\* C6: a node whose type is not in the widget-mapping table never makes the
\* conversion fail; the node built for it has its type and only references as
\* inputs, each of an input of the node that resolves; with no widgets and no
\* inputs its inputs are empty; and it is the node returned under its id
\* unless a later node has that id.
C6_UnknownTypeHasNoLiterals ==
    ConvertReturned \/ ConvertRaised =>
        /\ ConvertRaised => \E k \in DOMAIN EditorNodes : EditorNodes[k].type \in WidgetTable
        /\ ConvertReturned => Len(api_nodes) = Len(EditorNodes)
        /\ \A k \in DOMAIN api_nodes :
              EditorNodes[k].type \notin WidgetTable =>
                  /\ api_nodes[k].class_type = EditorNodes[k].type
                  /\ \A name \in DOMAIN api_nodes[k].inputs :
                        /\ api_nodes[k].inputs[name].kind = "reference"
                        /\ \E j \in DOMAIN InputsOf(EditorNodes[k]) :
                              /\ InputsOf(EditorNodes[k])[j].name = name
                              /\ Resolves(InputsOf(EditorNodes[k])[j])
                  /\ ~Has(EditorNodes[k], "widgets_values") /\ InputsOf(EditorNodes[k]) = <<>>
                        => api_nodes[k].inputs = EmptyDict
                  /\ ConvertReturned /\ LastWithId(k)
                        => api_workflow.map[DecimalOf(EditorNodes[k].id)] = api_nodes[k]

\* A node of another type with widget values and a resolved input was
\* converted, and so was one with neither widgets nor inputs.
C6_Witness ==
    /\ ConvertReturned
    /\ \E k \in DOMAIN EditorNodes :
          /\ EditorNodes[k].type \notin WidgetTable
          /\ Has(EditorNodes[k], "widgets_values") /\ EditorNodes[k].widgets_values # <<>>
          /\ api_nodes[k].inputs # EmptyDict
    /\ \E k \in DOMAIN EditorNodes :
          /\ EditorNodes[k].type \notin WidgetTable
          /\ ~Has(EditorNodes[k], "widgets_values") /\ InputsOf(EditorNodes[k]) = <<>>

(***************************************************************************)
(* The properties of the prompt injection.                                 *)
(***************************************************************************)
\* The injection loop of a script with one has run.
Injected ==
    \/ script = "convert-workflow" /\ pc \in {"post", "done"}
    \/ script \in {"generate-images-working", "debug-workflow-submit"} /\ pc # "inject"

\* The nodes the loop iterates, in its order: the converted graph's in
\* convert-workflow.py, the workflow file's in the other scripts.
IteratedNodes ==
    IF script = "convert-workflow"
    THEN [p \in DOMAIN api_workflow.order |->
            LET n == api_workflow.map[api_workflow.order[p]] IN
            [type |-> n.class_type, widgets |-> TRUE,
             title |-> IF "_meta" \in n.keys THEN n.title ELSE <<>>]]
    ELSE [k \in DOMAIN NodesOf(workflow_file) |->
            LET n == NodesOf(workflow_file)[k] IN
            [type |-> n.type, widgets |-> Has(n, "widgets_values"),
             title |-> IF Has(n, "title") THEN n.title ELSE <<>>]]

NEGATIVE == <<"N", "E", "G", "A", "T", "I", "V", "E">>

\* The title contains "negative" in some letter case.
SaysNegative(title) ==
    \E p \in 0..(Len(title) - Len(negative)) :
        \A q \in 1..Len(negative) : title[p + q] \in {negative[q], NEGATIVE[q]}

PositiveText(n) == n.type = "CLIPTextEncode" /\ ~SaysNegative(n.title)

\* C7 as stated: the node the loop overwrites is the first text-encoding node
\* whose title does not say "negative", an untitled node counting as positive.
C7_FirstPositiveTextNode ==
    Injected =>
        /\ Len(selected) <= 1
        /\ \A p \in DOMAIN IteratedNodes :
              (PositiveText(IteratedNodes[p])
               /\ \A q \in 1..(p - 1) : ~PositiveText(IteratedNodes[q]))
              => selected = <<p>>
        /\ (\A p \in DOMAIN IteratedNodes : ~PositiveText(IteratedNodes[p])) => selected = <<>>

\* What generate-images-working.py asks of a node besides: widgets_values.
Eligible(n) ==
    PositiveText(n) /\ (script = "generate-images-working" => n.widgets)

\* C7 as amended: as stated, but generate_image of generate-images-working.py
\* also passes over the text-encoding nodes that have no widgets_values.
C7_FirstEligibleTextNode ==
    Injected =>
        /\ Len(selected) <= 1
        /\ \A p \in DOMAIN IteratedNodes :
              (Eligible(IteratedNodes[p]) /\ \A q \in 1..(p - 1) : ~Eligible(IteratedNodes[q]))
              => selected = <<p>>
        /\ (\A p \in DOMAIN IteratedNodes : ~Eligible(IteratedNodes[p])) => selected = <<>>

\* generate_image has passed over a first positive text node without
\* widgets_values and overwritten the second node.
C7_Witness ==
    /\ Injected
    /\ script = "generate-images-working"
    /\ Len(IteratedNodes) = 2
    /\ PositiveText(IteratedNodes[1]) /\ ~IteratedNodes[1].widgets
    /\ selected = <<2>>
    /\ workflow.nodes[2].widgets_values = <<prompt_text>>

\* The workflow posted.
Payload == posted[Len(posted)]

\* The nodes of the workflow posted that differ from the workflow file's.
Overwritten ==
    {k \in DOMAIN NodesOf(workflow_file) : NodesOf(Payload)[k] # NodesOf(workflow_file)[k]}

EligibleFileNode(k) ==
    LET n == NodesOf(workflow_file)[k] IN
    /\ n.type = "CLIPTextEncode"
    /\ Has(n, "widgets_values")
    /\ ~SaysNegative(IF Has(n, "title") THEN n.title ELSE <<>>)

\* C8: in both generate_image implementations the workflow posted differs from
\* the workflow file in one node at most, the first positive text node, whose
\* widgets are the prompt text; every other node is posted as it is in the file.
C8_OnlySelectedNodeOverwritten ==
    (/\ script \in {"generate-images-working", "generate-images-local"}
     /\ posted # <<>>
     /\ pc \notin {"inject", "queue"}) =>
        /\ Payload.keys = workflow_file.keys
        /\ Len(NodesOf(Payload)) = Len(NodesOf(workflow_file))
        /\ Cardinality(Overwritten) <= 1
        /\ \A k \in DOMAIN NodesOf(workflow_file) :
              IF EligibleFileNode(k) /\ \A l \in 1..(k - 1) : ~EligibleFileNode(l)
              THEN NodesOf(Payload)[k]
                     = [NodesOf(workflow_file)[k] EXCEPT !.widgets_values = <<prompt_text>>]
              ELSE NodesOf(Payload)[k] = NodesOf(workflow_file)[k]

(***************************************************************************)
(* The properties of the submit-and-poll client.                           *)
(***************************************************************************)
Polling == script \in {"generate-images-working", "test-simple-generation"}

\* The configured number of status polls.
Budget == IF script = "generate-images-working" THEN WorkingAttempts ELSE TestAttempts

LastMessage == printed[Len(printed)]

\* The submission succeeded and the run ended after Budget polls, none of
\* which reported outputs.
TimedOutRun ==
    /\ Polling /\ pc = "done"
    /\ response.status_code = 200
    /\ poll_i = Budget
    /\ history.kind \in {"status", "missing", "empty"}

\* The submission was answered with a status other than 200.
Rejected == Polling /\ response.status_code \notin {0, 200}

FailedKinds == {"failed to submit", "failed"}

\* C9: a run whose polls all went by without outputs reports a timeout and no
\* failure (generate_image returning False), and the run of a rejected
\* submission reports a failure and no timeout: the two results differ.
C9_TimedOutNotFailed ==
    /\ TimedOutRun =>
          /\ LastMessage.kind = "timeout"
          /\ \A m \in DOMAIN printed : printed[m].kind \notin FailedKinds
          /\ script = "generate-images-working" => returned = <<FALSE>>
    /\ (Rejected /\ pc = "done") =>
          /\ LastMessage.kind \in FailedKinds
          /\ \A m \in DOMAIN printed : printed[m].kind # "timeout"

\* generate_image has used its 60 polls and timed out.
C9_Witness ==
    /\ TimedOutRun
    /\ script = "generate-images-working"
    /\ poll_i = 60
    /\ LastMessage.kind = "timeout"

\* C10: once the submission is rejected the run is over: no status query is
\* sent, the submission was sent once, and the last message is the failure
\* with the response body as it came (generate_image returning False).
C10_RejectedSubmissionEnds ==
    Rejected =>
        /\ pc = "done"
        /\ poll_i = 0 /\ history = NoHistory
        /\ Len(posted) = 1
        /\ LastMessage.kind \in FailedKinds
        /\ LastMessage.text = response.text
        /\ script = "generate-images-working" => returned = <<FALSE>>

\* generate_image got a 400 with a body and has ended.
C10_Witness ==
    /\ Rejected
    /\ script = "generate-images-working"
    /\ response.status_code = 400 /\ response.text = "invalid prompt"
    /\ LastMessage = Msg("failed to submit", "invalid prompt")
    /\ pc = "done"

(***************************************************************************)
(* The order of submission, status replies and artifact retrieval.         *)
(***************************************************************************)
\* The last status reply holds an entry for the job id the submission
\* returned, and that entry's outputs are not empty.
ReportedOutputs ==
    /\ response.status_code = 200
    /\ history.kind = "outputs"
    /\ history.job = response.prompt_id
    /\ Len(history.outputs) > 0

\* The file names the outputs of the last status reply list.
ListedImages ==
    UNION { { history.outputs[n].images[m] : m \in DOMAIN history.outputs[n].images } :
              n \in { o \in DOMAIN history.outputs : "images" \in history.outputs[o].keys } }

\* A "complete" message has been printed.
SaidComplete == \E m \in DOMAIN printed : printed[m].kind = "complete"

\* C11: in generate_image and in the test script every status query carries
\* the job id the submission returned; a file is copied, and the job reported
\* complete, only when the status reply for that job id holds non-empty
\* outputs, and the file copied is one those outputs list.
C11_ArtifactOnlyAfterOwnOutputs ==
    Polling =>
        /\ queried # <<>> => (response.status_code = 200 /\ queried = <<response.prompt_id>>)
        /\ poll_i > 0 => queried # <<>>
        /\ copied # <<>> => (ReportedOutputs /\ \A c \in DOMAIN copied : copied[c] \in ListedImages)
        /\ SaidComplete => ReportedOutputs
        /\ returned = <<TRUE>> => ReportedOutputs

\* generate_image saw the outputs of another job, went on polling, and copied
\* the file once its own job reported outputs.
C11_Witness ==
    /\ script = "generate-images-working"
    /\ poll_i > 1
    /\ ReportedOutputs
    /\ copied = <<"a.png">>
    /\ returned = <<TRUE>>

\* A timeout message has been printed.
SaidTimeout == \E m \in DOMAIN printed : printed[m].kind = "timeout"

\* C12: a run reports a timeout only when it has sent all the status queries
\* of its budget and the last of them, like the ones before, reported no
\* outputs for the job; a run whose status reply reported outputs never
\* reports a timeout, whether or not a file of those outputs exists.
C12_TimedOutOnlyOnExhaustedBudget ==
    (Polling /\ SaidTimeout) => (poll_i = Budget /\ ~ReportedOutputs)

\* C13: once the job is submitted, the run has sent no more status queries
\* than its budget (60 in generate_image, 30 in the test script) and, until it
\* has ended with its result, it always has a next step to take: polling never
\* stays without end short of a result.
C13_PollingTerminates ==
    (Polling /\ response.status_code = 200) =>
        /\ poll_i <= Budget
        /\ pc = "done" \/ ENABLED NextGenerate

(***************************************************************************)
(* The artifact retrieved.                                                 *)
(***************************************************************************)
\* The image entries of the last status reply: <<n, m>> is the m-th image of
\* the n-th output node.
ImageEntries ==
    { e \in (DOMAIN history.outputs) \X (1..2) :
        /\ "images" \in history.outputs[e[1]].keys
        /\ e[2] <= Len(history.outputs[e[1]].images) }

NameAt(e) == history.outputs[e[1]].images[e[2]]

\* e comes before f in the outputs' iteration order
Earlier(e, f) == e[1] < f[1] \/ (e[1] = f[1] /\ e[2] < f[2])

FirstOf(S) == CHOOSE e \in S : \A f \in S : ~Earlier(f, e)

ExistingEntries == { e \in ImageEntries : NameAt(e) \in history.files }

\* A job of generate-images-local.py has just returned its images.
LocalResults ==
    /\ script = "generate-images-local"
    /\ history.kind = "results"
    /\ Len(history.outputs) > 0

\* C14 as stated: the one file copied is the first image entry of the outputs.
C14_FirstImageCopied ==
    /\ (script = "generate-images-working" /\ copied # <<>>) =>
          (Len(copied) = 1 /\ copied[1] = NameAt(FirstOf(ImageEntries)))
    /\ LocalResults => copied[Len(copied)] = history.outputs[1]

\* C14: generate_image of generate-images-working.py copies one file at most,
\* the first image entry of the outputs whose file exists, and none when no
\* entry's file exists; generate_image of generate-images-local.py writes one
\* file for a job that returned images, the first of them, and none otherwise.
C14_FirstExistingImageCopied ==
    /\ script = "generate-images-working" =>
          /\ Len(copied) <= 1
          /\ (ReportedOutputs /\ ExistingEntries # {}) =>
                copied = <<NameAt(FirstOf(ExistingEntries))>>
          /\ (ReportedOutputs /\ ExistingEntries = {}) => copied = <<>>
    /\ script = "generate-images-local" =>
          /\ Len(copied) = generated
          /\ Len(copied) <= batch_i
          /\ LocalResults => copied[Len(copied)] = history.outputs[1]

\* The outputs list two nodes with an image each, both files exist, and the
\* first was copied.
C14_Witness ==
    /\ script = "generate-images-working"
    /\ ReportedOutputs
    /\ Len(history.outputs) = 2
    /\ Cardinality(ExistingEntries) = 2
    /\ copied = <<"a.png">>

(***************************************************************************)
(* The batch of generate-images-local.py.                                  *)
(***************************************************************************)
Batch == script = "generate-images-local" /\ pc # "parse"

\* The positions in printed of the messages of one kind, or of some kinds.
MessagesOf(kinds) == { m \in DOMAIN printed : printed[m].kind \in kinds }

JobOutcomes == {"generated", "no images", "error"}

\* The jobs started so far: the prompts announced.
Started == Cardinality(MessagesOf({"prompt"}))

\* The jobs ended so far, and those of them that succeeded.
Ended == Cardinality(MessagesOf(JobOutcomes))

Succeeded == Cardinality(MessagesOf({"generated"}))

\* The n-th message of the kinds given, in the order printed.
NthMessage(kinds, n) ==
    printed[CHOOSE m \in MessagesOf(kinds) :
                Cardinality({ l \in MessagesOf(kinds) : l < m }) = n - 1]

\* C15: main of generate-images-local.py takes the prompts in list order, one
\* job per prompt; a job is started only when every job before it has ended,
\* each job is submitted once, the batch ends only when every prompt has had
\* its job, whatever the jobs' outcomes, and the tally reported at the end is
\* the number of jobs that succeeded.
C15_SequentialBatch ==
    Batch =>
        /\ Started <= Len(prompts)
        /\ \A n \in 1..Started : NthMessage({"prompt"}, n).text = prompts[n].prompt
        /\ Ended <= Started /\ Started <= Ended + 1
        /\ \A m \in MessagesOf({"generating"}) :
              Cardinality({ l \in MessagesOf({"prompt"}) : l < m })
                = Cardinality({ l \in MessagesOf(JobOutcomes) : l < m })
        /\ Len(posted) = Ended
        /\ generated = Succeeded
        /\ pc = "done" =>
              /\ Started = Len(prompts) /\ Ended = Len(prompts)
              /\ LastMessage = Msg("batch complete", <<Succeeded, Len(prompts)>>)

\* A batch of three prompts has ended; its second job failed and its third
\* succeeded.
C15_Witness ==
    /\ Batch /\ pc = "done"
    /\ Len(prompts) = 3
    /\ NthMessage(JobOutcomes, 2).kind \in {"error", "no images"}
    /\ NthMessage(JobOutcomes, 3).kind = "generated"
    /\ generated = 2

(***************************************************************************)
(* parse_broll_prompts.                                                    *)
(***************************************************************************)
\* The number a heading's digits write.
NumberOf(ds) ==
    LET digit(c) == CHOOSE v \in 0..9 : DecimalOf(v) = c IN
    IF Len(ds) = 1 THEN digit(ds[1]) ELSE 10 * digit(ds[1]) + digit(ds[2])

\* The positions in the document of its scene blocks and episode headings.
ScenePositions == { k \in DOMAIN document : document[k].kind = "scene" }

EpisodesBefore(k) == { l \in 1..k : document[l].kind = "episode" }

\* The position of the n-th scene block.
NthScene(n) == CHOOSE k \in ScenePositions : Cardinality({ l \in ScenePositions : l < k }) = n

\* The content of a code block without the white space around it.
Stripped(content) == SelectSeq(content, LAMBDA piece : piece # " ")

\* C16: parse_broll_prompts returns one record for every scene block, in
\* document order, with the scene's number and its prompt stripped, and each
\* record's episode is the number of the nearest episode heading before the
\* scene, or 1 when no episode heading comes before it.
C16_EpisodeOfNearestHeading ==
    Batch =>
        /\ Len(prompts) = Cardinality(ScenePositions)
        /\ \A n \in DOMAIN prompts :
              LET k == NthScene(n - 1) IN
              /\ prompts[n].scene = NumberOf(document[k].number)
              /\ prompts[n].prompt = Stripped(document[k].content)
              /\ prompts[n].episode =
                    IF EpisodesBefore(k) = {} THEN 1
                    ELSE NumberOf(document[CHOOSE l \in EpisodesBefore(k) :
                                              \A h \in EpisodesBefore(k) : h <= l].number)

LaterDuplicate(n) == \E m \in 1..(n - 1) : LinkTable[m][1] = LinkTable[n][1]

\* The entries of the link table that carry the link of an input.
EntriesOf(input_info) == { m \in DOMAIN LinkTable : Matches(input_info, m) }

\* C18: an input whose link id several entries of the link table carry is set
\* from the one of them that comes first in the table, and the conversion of
\* the graph is the conversion of the graph without any one of the entries
\* that repeat an earlier entry's link id.
C18_FirstOfDuplicatesWins ==
    ConvertReturned =>
        /\ \A k \in DOMAIN EditorNodes : \A j \in DOMAIN InputsOf(EditorNodes[k]) :
              LET input_info == InputsOf(EditorNodes[k])[j]
                  first == CHOOSE m \in EntriesOf(input_info) :
                               \A n \in EntriesOf(input_info) : m <= n
              IN  (Cardinality(EntriesOf(input_info)) > 1 /\ LastWithName(k, j)) =>
                      /\ api_nodes[k].inputs[input_info.name].node = DecimalOf(LinkTable[first][2])
                      /\ api_nodes[k].inputs[input_info.name].slot = LinkTable[first][3]
        /\ \A n \in DOMAIN LinkTable :
              LaterDuplicate(n) =>
                  convert_workflow_to_api([workflow EXCEPT !.links = RemoveAt(@, n)])
                      = api_workflow

\* The link table is (7, 1, 0), (7, 2, 1) and an input with link 7 was set to
\* the output 0 of node 1.
C18_Witness ==
    /\ ConvertReturned
    /\ LinkTable = <<(<<7, 1, 0>>), (<<7, 2, 1>>)>>
    /\ \E k \in DOMAIN EditorNodes : \E name \in DOMAIN api_nodes[k].inputs :
          /\ \E j \in DOMAIN InputsOf(EditorNodes[k]) :
                InputsOf(EditorNodes[k])[j].name = name /\ Cardinality(EntriesOf(InputsOf(EditorNodes[k])[j])) = 2
          /\ api_nodes[k].inputs[name] = Ref("1", 0)

(***************************************************************************)
(* The poll loop, reply by reply.                                          *)
(***************************************************************************)
\* C19: from the moment a status reply holds non-empty outputs for the job,
\* no status query is sent any more, with a file copied or without, and
\* neither the return value nor the file copied changes: the run has ended.
C19_NoPollAfterOutputs ==
    [][(Polling /\ ReportedOutputs) =>
          /\ pc = "done"
          /\ poll_i' = poll_i /\ queried' = queried /\ history' = history
          /\ returned' = returned /\ copied' = copied]_vars

\* generate_image got outputs none of whose files exists, before its polls
\* were used up: it copied nothing, returned False and has ended.
C19_Witness ==
    /\ script = "generate-images-working"
    /\ ReportedOutputs
    /\ ImageEntries # {} /\ ExistingEntries = {}
    /\ poll_i = 2
    /\ copied = <<>> /\ returned = <<FALSE>>
    /\ pc = "done"

\* The reply h is no report of outputs for the job: its status is not 200, it
\* has no entry for the job id, or the entry's outputs are empty.
StillRunning(h) ==
    \/ h.kind \in {"status", "missing"}
    \/ h.kind \in {"empty", "outputs"} /\ h.job # response.prompt_id
    \/ h.kind \in {"empty", "outputs"} /\ Len(h.outputs) = 0

\* C20: a status query answered by a reply that is no report of outputs for
\* the job counts as one attempt, copies no file, prints nothing and returns
\* nothing: the script is back in its loop, to poll again or, its attempts
\* used up, to time out.
C20_OtherRepliesMeanRunning ==
    [][(Polling /\ poll_i' # poll_i /\ pc' # "blocked" /\ StillRunning(history')) =>
          /\ poll_i' = poll_i + 1
          /\ pc' = "poll"
          /\ copied' = copied /\ returned' = returned /\ printed' = printed]_vars

\* The test script got a status other than 200, then an entry of another job,
\* and is polling on.
C20_Witness ==
    /\ script = "test-simple-generation"
    /\ pc = "poll"
    /\ poll_i = 2
    /\ history.kind = "outputs" /\ history.job # response.prompt_id
    /\ LastMessage.kind = "waiting"

=============================================================================
